---- MODULE Spec2Model ----
(***************************************************************************)
(* Gaussian elimination over a LinearSystem of Plane rows (src/linsys.py,  *)
(* src/plane.py, src/vector.py).                                           *)
(*                                                                         *)
(* Numbers are the doubles of Python, see "Numbers" below.                 *)
(* Lists are heap objects: the heap maps a reference to the sequence of    *)
(* Plane values it holds, and a LinearSystem is a record holding the       *)
(* reference of its `planes` list and its dimension, so that two systems   *)
(* sharing one list, and a copy that does not, are different states.       *)
(* Row and column arguments are the 0-based indices of the Python code;    *)
(* the sequences that hold the rows are 1-based.                           *)
(***************************************************************************)
EXTENDS Integers, Sequences, FiniteSets, TLC

(***************************************************************************)
(* Bounds of the model.                                                    *)
(***************************************************************************)
MaxRows == 2
MaxDim == 3
MaxVal == 1
MaxOps == 1
MaxCalls == 1
MaxSeqOps == 2

(***************************************************************************)
(* Numbers.  A number is the value of a Python int or float: zero, or      *)
(* (-1)^s * m * 2^e with m odd, held as [s, m, e].  m is a natural number  *)
(* of at most Precision bits, written as the sequence of its digits in     *)
(* base 2^LimbBits, lowest digit first (<<>> is 0).  Two numbers are the   *)
(* same record exactly when Python's == holds of them (1 == 1.0 and        *)
(* 0.0 == -0.0).  Sums, products and quotients are rounded to the nearest  *)
(* double, ties to even, as int / int and the float operations of Python   *)
(* are; the integers of the model are far below 2^53, where int            *)
(* arithmetic and float arithmetic give the same values.  Exponent         *)
(* overflow and subnormal numbers are out of the range of the model.       *)
(***************************************************************************)
Abs(x) == IF x < 0 THEN -x ELSE x

Min(a, b) == IF a < b THEN a ELSE b

Max(a, b) == IF a > b THEN a ELSE b

Precision == 53
LimbBits == 15
Base == 2 ^ LimbBits

\* The digit of a at position i (positions from 1), 0 beyond its ends.
Limb(a, i) == IF 1 <= i /\ i <= Len(a) THEN a[i] ELSE 0

\* The position of the highest non-zero digit of a, 0 when a is 0.
TopLimb(a) ==
    CHOOSE i \in 0..Len(a) :
        (i = 0 \/ a[i] # 0) /\ \A j \in (i + 1)..Len(a) : a[j] = 0

\* a without its high zero digits.
BNorm(a) == SubSeq(a, 1, TopLimb(a))

\* The digits f[1], ..., f[n] of a function, as a sequence.
Digits(f) == f \o <<>>

BFromNat(n) ==
    BNorm(<<n % Base, (n \div Base) % Base, n \div (Base * Base)>>)

\* The carry into position i of a + b.
Carry(a, b, i) ==
    IF \E j \in 1..(i - 1) :
           /\ Limb(a, j) + Limb(b, j) >= Base
           /\ \A k \in (j + 1)..(i - 1) : Limb(a, k) + Limb(b, k) = Base - 1
    THEN 1 ELSE 0

BAdd(a, b) ==
    IF a = <<>> THEN b
    ELSE IF b = <<>> THEN a
    ELSE BNorm(Digits([i \in 1..(Max(Len(a), Len(b)) + 1) |->
                     (Limb(a, i) + Limb(b, i) + Carry(a, b, i)) % Base]))

\* The borrow from position i of a - b.
Borrow(a, b, i) ==
    IF \E j \in 1..(i - 1) :
           /\ Limb(a, j) < Limb(b, j)
           /\ \A k \in (j + 1)..(i - 1) : Limb(a, k) = Limb(b, k)
    THEN 1 ELSE 0

\* a - b for a >= b
BSub(a, b) ==
    IF b = <<>> THEN a
    ELSE BNorm(Digits([i \in 1..Len(a) |->
                     (Limb(a, i) - Limb(b, i) - Borrow(a, b, i) + Base) % Base]))

\* The highest position at which a and b, of one length, differ.
TopDifference(a, b) ==
    CHOOSE i \in 1..Len(a) : a[i] # b[i] /\ \A j \in (i + 1)..Len(a) : a[j] = b[j]

\* -1, 0, 1: a against b
BCmp(a, b) ==
    IF Len(a) > Len(b) THEN 1
    ELSE IF Len(a) < Len(b) THEN -1
    ELSE IF a = b THEN 0
    ELSE IF a[TopDifference(a, b)] > b[TopDifference(a, b)] THEN 1
    ELSE -1

\* a * k for 0 <= k < Base: the low digits of the products plus their high
\* digits one position up.
BMulSmall(a, k) ==
    IF k = 0 \/ a = <<>> THEN <<>>
    ELSE BAdd(Digits([i \in 1..Len(a) |-> (a[i] * k) % Base]),
         Digits([i \in 1..(Len(a) + 1) |-> (Limb(a, i - 1) * k) \div Base]))

\* The product of the digit of a at i and the digit of b at j - i + 1.
Term(a, b, i, j) == Limb(a, i) * Limb(b, j - i + 1)

\* Column j of the product of a and b, of at most 4 digits each (Precision
\* bits): the low digits of its terms plus the high digits of the terms of
\* the column below.
Column(a, b, j) ==
      (Term(a, b, 1, j) % Base) + (Term(a, b, 2, j) % Base)
    + (Term(a, b, 3, j) % Base) + (Term(a, b, 4, j) % Base)
    + (Term(a, b, 1, j - 1) \div Base) + (Term(a, b, 2, j - 1) \div Base)
    + (Term(a, b, 3, j - 1) \div Base) + (Term(a, b, 4, j - 1) \div Base)

\* a * b for a and b of at most 4 digits
BMul(a, b) ==
    IF a = <<>> \/ b = <<>> THEN <<>>
    ELSE BAdd(Digits([j \in 1..(Len(a) + Len(b)) |-> Column(a, b, j) % Base]),
         Digits([j \in 1..(Len(a) + Len(b) + 1) |->
                    IF j = 1 THEN 0 ELSE Column(a, b, j - 1) \div Base]))

\* The number of bits of n, 0 <= n < Base.
NatBitLen(n) == CHOOSE k \in 0..LimbBits : n < (2 ^ k) /\ (k = 0 \/ n >= (2 ^ (k - 1)))

BitLen(a) == IF a = <<>> THEN 0 ELSE (Len(a) - 1) * LimbBits + NatBitLen(a[Len(a)])

\* a * 2^n
BShl(a, n) ==
    IF n = 0 \/ a = <<>> THEN a
    ELSE BNorm(Digits([i \in 1..(Len(a) + (n \div LimbBits) + 1) |->
                     ((Limb(a, i - (n \div LimbBits)) * (2 ^ (n % LimbBits))) % Base)
                     + (Limb(a, i - (n \div LimbBits) - 1)
                            \div (2 ^ (LimbBits - (n % LimbBits))))]))

\* a \div 2^n
BShr(a, n) ==
    IF n = 0 \/ a = <<>> THEN a
    ELSE BNorm(Digits([i \in 1..(Len(a) - (n \div LimbBits)) |->
                     (Limb(a, i + (n \div LimbBits)) \div (2 ^ (n % LimbBits)))
                     + ((Limb(a, i + (n \div LimbBits) + 1) % (2 ^ (n % LimbBits)))
                            * (2 ^ (LimbBits - (n % LimbBits))))]))

\* bit n of a (bits from 0)
BBit(a, n) == (Limb(a, (n \div LimbBits) + 1) \div (2 ^ (n % LimbBits))) % 2

\* whether the n lowest bits of a are all zero
BLowZero(a, n) ==
    \A i \in 1..Len(a) :
        \/ (i - 1) * LimbBits >= n
        \/ IF i * LimbBits <= n THEN a[i] = 0
           ELSE a[i] % (2 ^ (n - ((i - 1) * LimbBits))) = 0

\* The number of low zero bits of n, 0 < n < Base.
NatTrailingZeros(n) == CHOOSE k \in 0..(LimbBits - 1) : n % (2 ^ (k + 1)) = 2 ^ k

\* The position of the lowest non-zero digit of a # 0.
LowLimb(a) == CHOOSE i \in 1..Len(a) : a[i] # 0 /\ \A j \in 1..(i - 1) : a[j] = 0

BTrailingZeros(a) == (LowLimb(a) - 1) * LimbBits + NatTrailingZeros(a[LowLimb(a)])

\* The quotient of r by d, for r < d * Base and d of 4 digits with the
\* highest at least Base / 2: the estimate g from the highest digits is at
\* most 2 too large.
Corrected(r, d, g) ==
    IF g = 0 \/ BCmp(BMulSmall(d, g), r) <= 0 THEN g
    ELSE IF g = 1 \/ BCmp(BMulSmall(d, g - 1), r) <= 0 THEN g - 1
    ELSE g - 2

Digit(r, d) ==
    Corrected(r, d, Min(Base - 1, (Limb(r, 5) * Base + Limb(r, 4)) \div d[4]))

\* One step of the long division by d: the next digit g of the quotient is
\* put below the digits q, and r - g * d is the remainder left.
RECURSIVE DivSteps(_, _, _, _)
Reduced(q, r, d, k, g) ==
    IF g = 0 THEN DivSteps(<<0>> \o q, r, d, k)
    ELSE DivSteps(<<g>> \o q, BSub(r, BMulSmall(d, g)), d, k)

\* [q, r]: k more digits of the quotient, below the digits q, and the
\* remainder left.
DivSteps(q, r, d, k) ==
    IF k = 0 THEN [q |-> BNorm(q), r |-> r]
    ELSE IF r = <<>> THEN DivSteps(<<0>> \o q, r, d, k - 1)
    ELSE Reduced(q, <<0>> \o r, d, k - 1, Digit(<<0>> \o r, d))

\* [q, r]: the quotient of n * Base^4 by d and the remainder, for n and d of
\* 4 * LimbBits bits.
LongDivision(n, d) ==
    IF BCmp(n, d) >= 0 THEN DivSteps(<<1>>, BSub(n, d), d, 4)
    ELSE DivSteps(<<>>, n, d, 4)

FZero == [s |-> 0, m |-> <<>>, e |-> 0]

Stripped(s, m, e, tz) == [s |-> s, m |-> BShr(m, tz), e |-> e + tz]

Canonical(s, m, e) == IF m = <<>> THEN FZero ELSE Stripped(s, m, e, BTrailingZeros(m))

RoundedAt(s, m, e, d, sticky) ==
    IF BBit(m, d - 1) = 1 /\ (sticky \/ ~BLowZero(m, d - 1) \/ BBit(m, d) = 1)
    THEN Canonical(s, BAdd(BShr(m, d), <<1>>), e + d)
    ELSE Canonical(s, BShr(m, d), e + d)

\* the double nearest to (-1)^s * (m + sticky) * 2^e, ties to even
Rounded(s, m, e, sticky) ==
    IF BitLen(m) <= Precision THEN Canonical(s, m, e)
    ELSE RoundedAt(s, m, e, BitLen(m) - Precision, sticky)

Float(n) == Canonical(IF n < 0 THEN 1 ELSE 0, BFromNat(Abs(n)), 0)

IsZero(x) == x.m = <<>>

FNeg(x) == IF IsZero(x) THEN x ELSE [x EXCEPT !.s = 1 - x.s]

\* -1, 0, 1: |x| against |y|, both non-zero
MagCmp(x, y) ==
    IF BitLen(x.m) + x.e > BitLen(y.m) + y.e THEN 1
    ELSE IF BitLen(x.m) + x.e < BitLen(y.m) + y.e THEN -1
    ELSE BCmp(BShl(x.m, x.e - Min(x.e, y.e)), BShl(y.m, y.e - Min(x.e, y.e)))

FCmp(x, y) ==
    IF IsZero(x) THEN (IF IsZero(y) THEN 0 ELSE IF y.s = 1 THEN 1 ELSE -1)
    ELSE IF IsZero(y) THEN (IF x.s = 1 THEN -1 ELSE 1)
    ELSE IF x.s # y.s THEN (IF x.s = 1 THEN -1 ELSE 1)
    ELSE IF x.s = 0 THEN MagCmp(x, y) ELSE -MagCmp(x, y)

FGt(x, y) == FCmp(x, y) > 0

AddAligned(sx, mx, sy, my, e) ==
    IF sx = sy THEN Rounded(sx, BAdd(mx, my), e, FALSE)
    ELSE IF BCmp(mx, my) >= 0 THEN Rounded(sx, BSub(mx, my), e, FALSE)
    ELSE Rounded(sy, BSub(my, mx), e, FALSE)

FAdd(x, y) ==
    IF IsZero(x) THEN y
    ELSE IF IsZero(y) THEN x
    ELSE IF BitLen(y.m) + y.e < BitLen(x.m) + x.e - (Precision + 2) THEN x
    ELSE IF BitLen(x.m) + x.e < BitLen(y.m) + y.e - (Precision + 2) THEN y
    ELSE AddAligned(x.s, BShl(x.m, x.e - Min(x.e, y.e)),
                    y.s, BShl(y.m, y.e - Min(x.e, y.e)), Min(x.e, y.e))

FMul(x, y) ==
    IF IsZero(x) \/ IsZero(y) THEN FZero
    ELSE Rounded((x.s + y.s) % 2, BMul(x.m, y.m), x.e + y.e, FALSE)

Quotient(s, w, e) == Rounded(s, w.q, e, w.r # <<>>)

\* the double nearest to (-1)^s * (n / d) * 2^e, for n and d # 0 of at
\* most 4 * LimbBits bits: both are shifted to that length and divided.
Divided(s, n, d, e) ==
    IF n = <<>> \/ d = <<>> THEN FZero
    ELSE Quotient(s,
                  LongDivision(BShl(n, 4 * LimbBits - BitLen(n)),
                               BShl(d, 4 * LimbBits - BitLen(d))),
                  e - 4 * LimbBits - (4 * LimbBits - BitLen(n))
                    + (4 * LimbBits - BitLen(d)))

\* x / y for y # 0
FDiv(x, y) == Divided((x.s + y.s) % 2, x.m, y.m, x.e - y.e)

RECURSIVE SumFrom(_, _, _)
SumFrom(xs, i, acc) == IF i > Len(xs) THEN acc ELSE SumFrom(xs, i + 1, FAdd(acc, xs[i]))

sum(xs) == SumFrom(xs, 1, FZero)

Zero == FZero
One == [s |-> 0, m |-> <<1>>, e |-> 0]

\* n / d for ints n and d # 0 (also the value of the decimal literal n/d).
Ratio(n, d) == FDiv(Float(n), Float(d))

(***************************************************************************)
(* The two near-zero tests of the code.                                    *)
(*   MyDecimal.is_near_zero: abs(Decimal(x)) < 1e-10.  abs rounds the      *)
(*     Decimal to the 30 digits of the context (src/linsys.py, line 7),    *)
(*     which keeps every double on its side of Eps, the double 1e-10, and  *)
(*     takes Eps itself above it: the test is abs(x) < Eps.                *)
(*   round(x, 9) == 0: abs(x) < 1 / RoundHalfInv; no double is the tie.    *)
(***************************************************************************)
EpsInvRoot == 100000
RoundHalfInv == 2000000000

Eps == FDiv(Float(1), FMul(Float(EpsInvRoot), Float(EpsInvRoot)))

\* (Eps < 2^-30: a magnitude of 2^-30 or more is settled by its exponent.)
is_near_zero(x) ==
    \/ IsZero(x)
    \/ /\ BitLen(x.m) + x.e < -30
       /\ MagCmp(x, Eps) < 0

round9_is_zero(x) ==
    \/ IsZero(x)
    \/ /\ BitLen(x.m) + x.e < -20
       /\ BCmp(BMul(x.m, BFromNat(RoundHalfInv)), BShl(<<1>>, -x.e)) < 0

(***************************************************************************)
(* Plane (src/plane.py): a normal vector and a constant term.              *)
(***************************************************************************)
\* tuple(coordinates), as the Vector of a plane holds them (src/vector.py).
tuple(coordinates) == coordinates \o <<>>

Plane(normal_vector, constant_term) ==
    [normal_vector |-> tuple(normal_vector), constant_term |-> constant_term]

\* Plane.first_nonzero_index; -1 stands for the NO_NONZERO_ELTS_FOUND_MSG
\* exception, as in indices_of_first_nonzero_terms_in_each_row.
RECURSIVE first_nonzero_from(_, _)
first_nonzero_from(iterable, k) ==
    IF k >= Len(iterable) THEN -1
    ELSE IF ~round9_is_zero(iterable[k + 1]) THEN k
    ELSE first_nonzero_from(iterable, k + 1)

first_nonzero_index(iterable) == first_nonzero_from(iterable, 0)

(***************************************************************************)
(* LinearSystem (src/linsys.py).  A system is [planes, dimension]: the     *)
(* reference of its list of planes and the dimension read at construction. *)
(* Every operation takes the heap h and returns the heap it leaves.        *)
(***************************************************************************)
LinearSystem(h, planes) ==
    [planes |-> planes, dimension |-> Len(h[planes][1].normal_vector)]

len(h, self) == Len(h[self.planes])

getitem(h, self, i) == h[self.planes][i + 1]

coordinate(h, self, row, col) == getitem(h, self, row).normal_vector[col + 1]

\* Mutant of swap_rows: row2 is copied to row1 and keeps its place.
swap_rows_overwriting(h, self, row1, row2) ==
    [h EXCEPT ![self.planes][row1 + 1] = h[self.planes][row2 + 1]]

swap_rows(h, self, row1, row2) ==
    [h EXCEPT ![self.planes][row1 + 1] = h[self.planes][row2 + 1],
              ![self.planes][row2 + 1] = h[self.planes][row1 + 1]]

_multiply(h, self, coefficient, row) ==
    LET p == getitem(h, self, row)
    IN  Plane([i \in 1..Len(p.normal_vector) |-> FMul(coefficient, p.normal_vector[i])],
              FMul(coefficient, p.constant_term))

\* Mutant of multiply_coefficient_and_row: the product replaces the first row.
multiply_into_first_row(h, self, coefficient, row) ==
    [h EXCEPT ![self.planes][1] = _multiply(h, self, coefficient, row)]

multiply_coefficient_and_row(h, self, coefficient, row) ==
    [h EXCEPT ![self.planes][row + 1] = _multiply(h, self, coefficient, row)]

\* Mutant of add_multiple_times_row_to_row: the row is added as it is, not
\* multiplied by the coefficient.
add_row_unscaled(h, self, coefficient, row_to_add, row_to_be_added_to) ==
    LET p == getitem(h, self, row_to_add)
        q == getitem(h, self, row_to_be_added_to)
        new_vector == [i \in 1..Len(q.normal_vector) |->
                          FAdd(q.normal_vector[i], p.normal_vector[i])]
        new_constant == FAdd(q.constant_term, p.constant_term)
    IN  [h EXCEPT ![self.planes][row_to_be_added_to + 1] = Plane(new_vector, new_constant)]

add_multiple_times_row_to_row(h, self, coefficient, row_to_add, row_to_be_added_to) ==
    LET p == _multiply(h, self, coefficient, row_to_add)
        q == getitem(h, self, row_to_be_added_to)
        new_vector == [i \in 1..Len(q.normal_vector) |->
                          FAdd(q.normal_vector[i], p.normal_vector[i])]
        new_constant == FAdd(q.constant_term, p.constant_term)
    IN  [h EXCEPT ![self.planes][row_to_be_added_to + 1] = Plane(new_vector, new_constant)]

indices_of_first_nonzero_terms_in_each_row(h, self) ==
    [i \in 1..len(h, self) |-> first_nonzero_index(h[self.planes][i].normal_vector)]

\* Mutant of deepcopy: the "copy" is the receiver itself.
deepcopy_shared(h, self, new) == [heap |-> h, system |-> self]

\* deepcopy(self): a new list, at the reference new, holding copies of the planes.
deepcopy(h, self, new) ==
    [heap |-> [h EXCEPT ![new] = h[self.planes]],
     system |-> [planes |-> new, dimension |-> self.dimension]]

(***************************************************************************)
(* Elimination.  A frame w is [heap, raised]: raised is set by a division  *)
(* by zero (ZeroDivisionError), after which nothing more is executed.      *)
(***************************************************************************)
Frame(h, raised) == [heap |-> h, raised |-> raised]

RECURSIVE swap_row_below_from(_, _, _, _, _)
swap_row_below_from(h, self, row, col, k) ==
    IF k >= len(h, self) THEN [found |-> FALSE, heap |-> h]
    ELSE IF ~is_near_zero(coordinate(h, self, k, col))
         THEN [found |-> TRUE, heap |-> swap_rows(h, self, row, k)]
    ELSE swap_row_below_from(h, self, row, col, k + 1)

\* Mutant of swap_row_below: partial pivoting, the row below with the entry
\* of largest magnitude is swapped in.
swap_row_below_largest(h, self, row, col) ==
    IF \A k \in (row + 1)..(len(h, self) - 1) : is_near_zero(coordinate(h, self, k, col))
    THEN [found |-> FALSE, heap |-> h]
    ELSE [found |-> TRUE,
          heap |-> swap_rows(h, self, row,
                             CHOOSE k \in (row + 1)..(len(h, self) - 1) :
                                 /\ ~is_near_zero(coordinate(h, self, k, col))
                                 /\ \A j \in (row + 1)..(len(h, self) - 1) :
                                        ~FGt(FMul(coordinate(h, self, j, col),
                                                  coordinate(h, self, j, col)),
                                             FMul(coordinate(h, self, k, col),
                                                  coordinate(h, self, k, col))))]

swap_row_below(h, self, row, col) == swap_row_below_from(h, self, row, col, row + 1)

RECURSIVE clear_below_from(_, _, _, _, _, _)
clear_below_from(h, self, row, col, beta, k) ==
    IF k >= len(h, self) THEN Frame(h, FALSE)
    ELSE IF beta = Zero THEN Frame(h, TRUE)
    ELSE LET gamma == coordinate(h, self, k, col)
             alpha == FDiv(FNeg(gamma), beta)
         IN  clear_below_from(add_multiple_times_row_to_row(h, self, alpha, row, k),
                              self, row, col, beta, k + 1)

clear_coefficients_below(h, self, row, col) ==
    clear_below_from(h, self, row, col, coordinate(h, self, row, col), row + 1)

RECURSIVE triangular_loop(_, _, _, _)
triangular_loop(w, system, row, col) ==
    IF w.raised \/ row >= len(w.heap, system) THEN w
    ELSE IF col >= system.dimension THEN triangular_loop(w, system, row + 1, 0)
    ELSE IF is_near_zero(coordinate(w.heap, system, row, col))
         THEN LET sw == swap_row_below(w.heap, system, row, col)
              IN  IF ~sw.found
                  THEN triangular_loop(w, system, row, col + 1)
                  ELSE triangular_loop(clear_coefficients_below(sw.heap, system, row, col),
                                       system, row + 1, 0)
    ELSE triangular_loop(clear_coefficients_below(w.heap, system, row, col),
                         system, row + 1, 0)

\* What an elimination call leaves: the frame it ended in and the system it
\* returns.
Returned(w, system) == [heap |-> w.heap, raised |-> w.raised, system |-> system]

\* The loops of compute_triangular_form, run on the copy c.
triangular_form_of(c) ==
    Returned(triangular_loop(Frame(c.heap, FALSE), c.system, 0, 0), c.system)

\* Returns [heap, raised, system]: system is the copy that was reduced.
compute_triangular_form(h, self, new) == triangular_form_of(deepcopy(h, self, new))

scale_row(h, self, row_index, column_index) ==
    LET x == coordinate(h, self, row_index, column_index)
    IN  IF x = Zero THEN Frame(h, TRUE)
        ELSE Frame(multiply_coefficient_and_row(h, self, FDiv(One, x), row_index), FALSE)

RECURSIVE clear_above_from(_, _, _, _, _)
clear_above_from(h, self, row, col, k) ==
    IF k < 0 THEN h
    ELSE LET scalar == FNeg(coordinate(h, self, k, col))
         IN  clear_above_from(add_multiple_times_row_to_row(h, self, scalar, row, k),
                              self, row, col, k - 1)

clear_coefficients_above(h, self, row, col) == clear_above_from(h, self, row, col, row - 1)

RECURSIVE rref_loop(_, _, _, _)
rref_loop(w, system, pivot_indices, i) ==
    IF w.raised \/ i < 0 THEN w
    ELSE LET first_non_zero_index == pivot_indices[i + 1]
         IN  IF first_non_zero_index < 0
             THEN rref_loop(w, system, pivot_indices, i - 1)
             ELSE LET sc == scale_row(w.heap, system, i, first_non_zero_index)
                  IN  IF sc.raised THEN sc
                      ELSE rref_loop(
                               Frame(clear_coefficients_above(sc.heap, system, i,
                                                              first_non_zero_index), FALSE),
                               system, pivot_indices, i - 1)

\* The loop of compute_rref, run on the triangular form tf.
rref_of(tf) ==
    IF tf.raised THEN tf
    ELSE Returned(rref_loop(Frame(tf.heap, FALSE), tf.system,
                            indices_of_first_nonzero_terms_in_each_row(tf.heap, tf.system),
                            len(tf.heap, tf.system) - 1),
                  tf.system)

compute_rref(h, self, new) == rref_of(compute_triangular_form(h, self, new))

(***************************************************************************)
(* Classification of a reduced system.                                     *)
(***************************************************************************)
\* Mutant of _no_intersections: the loop returns after looking at the first plane.
_no_intersections_first(h, self) ==
    /\ first_nonzero_index(h[self.planes][1].normal_vector) = -1
    /\ ~round9_is_zero(h[self.planes][1].constant_term)

_no_intersections(h, self) ==
    \E i \in 1..len(h, self) :
        /\ first_nonzero_index(h[self.planes][i].normal_vector) = -1
        /\ ~round9_is_zero(h[self.planes][i].constant_term)

\* The rows _infinite_solutions keeps: those with a coefficient that does not
\* round to zero.
HasNonzeroItem(p) == \E k \in 1..Len(p.normal_vector) : ~round9_is_zero(p.normal_vector[k])

\* _infinite_solutions binds self.planes to the new list new_planes (at the
\* reference new) and answers whether there are infinitely many solutions.
\* Returns [heap, system, value].
_infinite_solutions(h, self, new) ==
    LET new_planes == SelectSeq(h[self.planes], HasNonzeroItem)
        h1 == [h EXCEPT ![new] = new_planes]
        self1 == [self EXCEPT !.planes = new]
    IN  [heap |-> h1, system |-> self1,
         value |-> \/ Len(new_planes) < self.dimension
                   \/ \E i \in 1..Len(new_planes) :
                          FGt(sum(new_planes[i].normal_vector), One)]

RECURSIVE basepoint_loop(_, _, _, _, _)
basepoint_loop(h, self, pivot_indices, basepoint, i) ==
    IF i >= len(h, self) THEN basepoint
    ELSE IF pivot_indices[i + 1] < 0 THEN basepoint
    ELSE basepoint_loop(h, self, pivot_indices,
                        [basepoint EXCEPT ![pivot_indices[i + 1] + 1] =
                            getitem(h, self, i).constant_term],
                        i + 1)

\* [0] * n
RECURSIVE Zeros(_)
Zeros(n) == IF n = 0 THEN <<>> ELSE Append(Zeros(n - 1), Zero)

_get_basepoint(h, self) ==
    basepoint_loop(h, self, indices_of_first_nonzero_terms_in_each_row(h, self),
                   Zeros(self.dimension), 0)

RECURSIVE direction_loop(_, _, _, _, _, _)
direction_loop(h, self, pivot_indices, fv, vector_coordinates, i) ==
    IF i >= len(h, self) THEN vector_coordinates
    ELSE IF pivot_indices[i + 1] < 0 THEN vector_coordinates
    ELSE direction_loop(h, self, pivot_indices, fv,
                        [vector_coordinates EXCEPT ![pivot_indices[i + 1] + 1] =
                            FAdd(Zero, FNeg(coordinate(h, self, i, fv)))],
                        i + 1)

(***************************************************************************)
(* The set of free columns (src/linsys.py:286) and the order in which the  *)
(* loop over it runs.  Python leaves the order of a set open; the build    *)
(* (CPython) keeps a set in a hash table of 2^k entries and iterates the   *)
(* entries in table order.  The hash of a column index is the index.       *)
(***************************************************************************)
PySet_MINSIZE == 8

LINEAR_PROBES == 9

PERTURB_SHIFT == 5

\* An entry that was never used, and one whose key was discarded.
Unused == -1

Dummy == -2

EmptyTable(size) == [i \in 1..size |-> Unused]

\* The keys a table holds.
Keys(table) == {table[i] : i \in 1..Len(table)} \ {Unused, Dummy}

\* The entry that holds a key of the table.
EntryOf(table, key) == CHOOSE i \in 1..Len(table) : table[i] = key

\* for key in a set: the keys in table order.
Iterated(table) ==
    [j \in 1..Cardinality(Keys(table)) |->
        CHOOSE key \in Keys(table) :
            Cardinality({k \in Keys(table) : EntryOf(table, k) < EntryOf(table, key)}) = j - 1]

\* The entry a new key is stored in: the first unused one among entry i and,
\* when they all lie inside the table, the LINEAR_PROBES entries after it,
\* else the search goes on from entry i * 5 + 1 + perturb.
RECURSIVE FreeEntry(_, _, _)
FreeEntry(table, i, perturb) ==
    LET mask == Len(table) - 1
        probes == IF i + LINEAR_PROBES <= mask THEN LINEAR_PROBES ELSE 0
        free == {j \in i..(i + probes) : table[j + 1] = Unused}
    IN  IF free # {} THEN CHOOSE j \in free : \A k \in free : j <= k
        ELSE FreeEntry(table, (i * 5 + 1 + (perturb \div 2^PERTURB_SHIFT)) % (mask + 1),
                       perturb \div 2^PERTURB_SHIFT)

set_insert_clean(table, key) ==
    [table EXCEPT ![FreeEntry(table, key % Len(table), key) + 1] = key]

\* The keys keys[i], keys[i + 1], ... stored one by one.
RECURSIVE InsertedFrom(_, _, _)
InsertedFrom(table, keys, i) ==
    IF i > Len(keys) THEN table
    ELSE InsertedFrom(set_insert_clean(table, keys[i]), keys, i + 1)

\* The smallest table size above minused.
RECURSIVE TableSize(_, _)
TableSize(newsize, minused) ==
    IF newsize <= minused THEN TableSize(2 * newsize, minused) ELSE newsize

set_table_resize(table, minused) ==
    InsertedFrom(EmptyTable(TableSize(PySet_MINSIZE, minused)), Iterated(table), 1)

\* set_add_entry for a table without discarded keys: the table grows when
\* three fifths of it are filled.
set_add_entry(table, key) ==
    IF key \in Keys(table) THEN table
    ELSE LET added == set_insert_clean(table, key)
             used == Cardinality(Keys(added))
         IN  IF used * 5 < (Len(added) - 1) * 3 THEN added
             ELSE set_table_resize(added, IF used > 50000 THEN used * 2 ELSE used * 4)

\* set(range(n)): the keys 0 .. n - 1 added one by one.
RECURSIVE set_of_range(_)
set_of_range(n) ==
    IF n = 0 THEN EmptyTable(PySet_MINSIZE)
    ELSE set_add_entry(set_of_range(n - 1), n - 1)

\* set_merge into a new set: the copy of a set.
set_copy(so) ==
    LET used == Cardinality(Keys(so))
        table == IF used * 5 >= (PySet_MINSIZE - 1) * 3
                 THEN EmptyTable(TableSize(PySet_MINSIZE, used * 2))
                 ELSE EmptyTable(PySet_MINSIZE)
    IN  IF used = 0 THEN table
        ELSE IF Len(table) = Len(so) /\ \A i \in 1..Len(so) : so[i] # Dummy THEN so
        ELSE InsertedFrom(table, Iterated(so), 1)

\* The keys of so that are not in the set other, added to a new set in the
\* order of so's table.
RECURSIVE DifferenceFrom(_, _, _, _)
DifferenceFrom(result, keys, other, i) ==
    IF i > Len(keys) THEN result
    ELSE DifferenceFrom(IF keys[i] \in other THEN result
                        ELSE set_add_entry(result, keys[i]),
                        keys, other, i + 1)

\* so - other for the sets so (a table) and other (its keys): a set much
\* larger than other is copied and the keys of other discarded from the copy,
\* which leaves a dummy entry where a key of the copy was and every other
\* entry, used or unused, as it is.
set_difference(so, other) ==
    IF Cardinality(Keys(so)) \div 4 > Cardinality(other)
    THEN LET copy == set_copy(so)
         IN  [i \in 1..Len(copy) |->
                 IF copy[i] \in Keys(copy) /\ copy[i] \in other THEN Dummy ELSE copy[i]]
    ELSE DifferenceFrom(EmptyTable(PySet_MINSIZE), Iterated(so), other, 1)

_get_direction_vectors(h, self) ==
    LET pivot_indices == indices_of_first_nonzero_terms_in_each_row(h, self)
        freevar_indices == set_difference(set_of_range(self.dimension),
                               {pivot_indices[i] : i \in 1..Len(pivot_indices)})
        order == Iterated(freevar_indices)
    IN  [j \in 1..Len(order) |->
            direction_loop(h, self, pivot_indices, order[j],
                           [Zeros(self.dimension) EXCEPT ![order[j] + 1] = One], 0)]

\* |x| * 10^3 rounded to an integer, ties to even, for x.e < 0
Thousandths(m, d) ==
    IF BBit(m, d - 1) = 1 /\ (~BLowZero(m, d - 1) \/ BBit(m, d) = 1)
    THEN BAdd(BShr(m, d), <<1>>)
    ELSE BShr(m, d)

\* round(x, 3)
Round3(x) ==
    IF x.e >= 0 THEN x
    ELSE Divided(x.s, Thousandths(BMulSmall(x.m, 1000), -x.e), <<1000>>, 0)

\* _parameters: one line per variable, the basepoint entry and one term per
\* direction vector, each rounded to 3 places (a term that rounds to 0 is not
\* printed).
_parameters(basepoint, vectors) ==
    [i \in 1..Len(basepoint) |->
        [b |-> Round3(basepoint[i]),
         terms |-> [j \in 1..Len(vectors) |-> Round3(vectors[j][i])]]]

(***************************************************************************)
(* gaussian_elimination.  The value returned is one of                     *)
(*   NO_SOLUTIONS_MSG,                                                     *)
(*   the text of _parameters(basepoint, direction vectors),                *)
(*   the tuple of the constant terms,                                      *)
(* held here in one record shape; basepoint and direction_vectors are the  *)
(* arguments the text was rendered from.                                   *)
(***************************************************************************)
NO_SOLUTIONS_MSG ==
    [kind |-> "No solutions", solutions |-> <<>>, text |-> <<>>,
     basepoint |-> <<>>, direction_vectors |-> <<>>]

NoValue ==
    [kind |-> "None", solutions |-> <<>>, text |-> <<>>,
     basepoint |-> <<>>, direction_vectors |-> <<>>]

Parametrization(basepoint, vectors) ==
    [kind |-> "parameters", solutions |-> <<>>, text |-> _parameters(basepoint, vectors),
     basepoint |-> basepoint, direction_vectors |-> vectors]

Tuple(solutions) ==
    [kind |-> "tuple", solutions |-> solutions, text |-> <<>>,
     basepoint |-> <<>>, direction_vectors |-> <<>>]

\* The last two returns of gaussian_elimination, after ge._infinite_solutions()
\* answered inf = [heap, system, value].
solutions_of(inf) ==
    IF inf.value
    THEN [heap |-> inf.heap, raised |-> FALSE,
          value |-> Parametrization(_get_basepoint(inf.heap, inf.system),
                                    _get_direction_vectors(inf.heap, inf.system))]
    ELSE [heap |-> inf.heap, raised |-> FALSE,
          value |-> Tuple([i \in 1..len(inf.heap, inf.system) |->
                              inf.heap[inf.system.planes][i].constant_term])]

\* gaussian_elimination after ge = self.compute_rref() returned r.
classify(r, new_planes) ==
    IF r.raised THEN [heap |-> r.heap, raised |-> TRUE, value |-> NoValue]
    ELSE IF _no_intersections(r.heap, r.system)
         THEN [heap |-> r.heap, raised |-> FALSE, value |-> NO_SOLUTIONS_MSG]
    ELSE solutions_of(_infinite_solutions(r.heap, r.system, new_planes))

\* Returns [heap, raised, value]; ge is the reduced copy (allocated at
\* new_system), whose planes _infinite_solutions rebinds (to new_planes).
gaussian_elimination(h, self, new_system, new_planes) ==
    classify(compute_rref(h, self, new_system), new_planes)

(***************************************************************************)
(* The inputs: every system of 1..MaxRows planes of one dimension          *)
(* MinDim..MaxDim with entries in 0..MaxVal, and the systems of the        *)
(* module's own tests and quiz (src/linsys.py, __main__).                  *)
(***************************************************************************)
MinDim == 2

Vals == {Float(k) : k \in 0..MaxVal}

PlanesOfDim(d) == {Plane(v, c) : v \in [1..d -> Vals], c \in Vals}

GridSystems == UNION {[1..n -> PlanesOfDim(d)] : n \in 1..MaxRows, d \in MinDim..MaxDim}

IntPlane(a, b, c, k) == Plane(<<Float(a), Float(b), Float(c)>>, Float(k))

\* A plane whose entries are given in thousandths (5.862 is 5862).
MilliPlane(a, b, c, k) ==
    Plane(<<Ratio(a, 1000), Ratio(b, 1000), Ratio(c, 1000)>>, Ratio(k, 1000))

Test11 == <<IntPlane(1, 1, 1, 1), IntPlane(0, 1, 0, 2),
            IntPlane(1, 1, -1, 3), IntPlane(1, 0, -2, 2)>>

Test12 == <<IntPlane(0, 1, 1, 1), IntPlane(1, -1, 1, 2), IntPlane(1, 2, -5, 3)>>

Quiz1 == <<MilliPlane(5862, 1178, -10366, -8150), MilliPlane(-2931, -589, 5183, -4075)>>

Inputs == GridSystems \cup {Test11, Test12, Quiz1}

\* The scalars the primitives are called with.
Scalars == {Float(k) : k \in (-1)..(MaxVal + 1)}

(***************************************************************************)
(* The state: a client builds the system s from its list `planes`, applies *)
(* in-place primitives and single steps of the elimination to s or to a    *)
(* derived system t, and calls the elimination operations on s.            *)
(***************************************************************************)
VARIABLES
    heap,       \* reference -> the list of planes it holds
    s,          \* the LinearSystem built by the constructor
    t,          \* the system last returned by compute_triangular_form / compute_rref
    result,     \* the value last returned by gaussian_elimination
    raised,     \* whether the last call raised an exception
    last,       \* the last operation: [op, on, args]
    orig,       \* the rows s was constructed with
    preserving, \* every primitive applied to s so far had k # 0 and src # dst
    nops,       \* number of in-place primitives and steps applied
    ncalls      \* number of elimination calls made

vars == <<heap, s, t, result, raised, last, orig, preserving, nops, ncalls>>

Refs == {"planes", "system", "ge", "new_planes"}

NoSystem == [planes |-> "none", dimension |-> 0]

Heap0(planes) == [planes |-> planes, system |-> <<>>, ge |-> <<>>, new_planes |-> <<>>]

Constructed(planes) ==
        /\ heap = Heap0(planes)
        /\ s = LinearSystem(Heap0(planes), "planes")
        /\ t = NoSystem
        /\ result = NoValue
        /\ raised = FALSE
        /\ last = [op |-> "__init__", on |-> "s", args |-> <<>>]
        /\ orig = planes
        /\ preserving = TRUE
        /\ nops = 0
        /\ ncalls = 0

Init == \E planes \in Inputs : Constructed(planes)

Targets == IF t = NoSystem THEN {"s"} ELSE {"s", "t"}

Target(on) == IF on = "s" THEN s ELSE t

RowsOf(on) == 0..(len(heap, Target(on)) - 1)

SwapRows(maxops) ==
    \E on \in Targets : \E row1, row2 \in RowsOf(on) :
        /\ nops < maxops
        /\ heap' = swap_rows(heap, Target(on), row1, row2)
        /\ last' = [op |-> "swap_rows", on |-> on, args |-> <<row1, row2>>]
        /\ raised' = FALSE
        /\ nops' = nops + 1
        /\ UNCHANGED <<s, t, result, orig, preserving, ncalls>>

MultiplyCoefficientAndRow(maxops) ==
    \E on \in Targets : \E row \in RowsOf(on) : \E coefficient \in Scalars :
        /\ nops < maxops
        /\ heap' = multiply_coefficient_and_row(heap, Target(on), coefficient, row)
        /\ last' = [op |-> "multiply_coefficient_and_row", on |-> on,
                    args |-> <<coefficient, row>>]
        /\ preserving' = (preserving /\ (on = "s" => coefficient # Zero))
        /\ raised' = FALSE
        /\ nops' = nops + 1
        /\ UNCHANGED <<s, t, result, orig, ncalls>>

AddMultipleTimesRowToRow(maxops) ==
    \E on \in Targets : \E src, dst \in RowsOf(on) : \E coefficient \in Scalars :
        /\ nops < maxops
        /\ heap' = add_multiple_times_row_to_row(heap, Target(on), coefficient, src, dst)
        /\ last' = [op |-> "add_multiple_times_row_to_row", on |-> on,
                    args |-> <<coefficient, src, dst>>]
        /\ preserving' = (preserving /\ (on = "s" => src # dst))
        /\ raised' = FALSE
        /\ nops' = nops + 1
        /\ UNCHANGED <<s, t, result, orig, ncalls>>

ColsOf(on) == 0..(Target(on).dimension - 1)

\* What a step of the elimination leaves when the client calls it on a
\* system: r = [heap, raised].  Each step is a sequence of swaps, of
\* additions of a multiple of another row and of multiplications by 1/x.
Stepped(r, op, on, args) ==
    /\ heap' = r.heap
    /\ raised' = r.raised
    /\ last' = [op |-> op, on |-> on, args |-> args]
    /\ nops' = nops + 1
    /\ UNCHANGED <<s, t, result, orig, preserving, ncalls>>

SwapRowBelow(maxops) ==
    \E on \in Targets : \E row \in RowsOf(on) : \E col \in ColsOf(on) :
        /\ nops < maxops
        /\ Stepped(Frame(swap_row_below(heap, Target(on), row, col).heap, FALSE),
                   "swap_row_below", on, <<row, col>>)

ClearCoefficientsBelow(maxops) ==
    \E on \in Targets : \E row \in RowsOf(on) : \E col \in ColsOf(on) :
        /\ nops < maxops
        /\ Stepped(clear_coefficients_below(heap, Target(on), row, col),
                   "clear_coefficients_below", on, <<row, col>>)

ScaleRow(maxops) ==
    \E on \in Targets : \E row_index \in RowsOf(on) : \E column_index \in ColsOf(on) :
        /\ nops < maxops
        /\ Stepped(scale_row(heap, Target(on), row_index, column_index),
                   "scale_row", on, <<row_index, column_index>>)

ClearCoefficientsAbove(maxops) ==
    \E on \in Targets : \E row \in RowsOf(on) : \E col \in ColsOf(on) :
        /\ nops < maxops
        /\ Stepped(Frame(clear_coefficients_above(heap, Target(on), row, col), FALSE),
                   "clear_coefficients_above", on, <<row, col>>)

\* t = s.compute_triangular_form() or t = s.compute_rref() returned r.  When
\* the call raised, t is not assigned and the copy the call worked on is
\* dropped: the list of the system t refers to is as it was.
Assigned(r, op) ==
    /\ heap' = IF r.raised THEN heap ELSE r.heap
    /\ t' = IF r.raised THEN t ELSE r.system
    /\ raised' = r.raised
    /\ last' = [op |-> op, on |-> "s", args |-> <<>>]
    /\ ncalls' = ncalls + 1
    /\ UNCHANGED <<s, result, orig, preserving, nops>>

\* result = s.gaussian_elimination() returned r; the lists of ge are local to
\* the call and are dropped when it returns.  When the call raised, result
\* is not assigned and keeps the value of the earlier call.
Answered(r) ==
    /\ heap' = [r.heap EXCEPT !["ge"] = <<>>, !["new_planes"] = <<>>]
    /\ result' = IF r.raised THEN result ELSE r.value
    /\ raised' = r.raised
    /\ last' = [op |-> "gaussian_elimination", on |-> "s", args |-> <<>>]
    /\ ncalls' = ncalls + 1
    /\ UNCHANGED <<s, t, orig, preserving, nops>>

ComputeTriangularForm ==
    /\ ncalls < MaxCalls
    /\ Assigned(compute_triangular_form(heap, s, "system"), "compute_triangular_form")

ComputeRref ==
    /\ ncalls < MaxCalls
    /\ Assigned(compute_rref(heap, s, "system"), "compute_rref")

GaussianElimination ==
    /\ ncalls < MaxCalls
    /\ Answered(gaussian_elimination(heap, s, "ge", "new_planes"))

Next ==
    \/ SwapRows(MaxOps)
    \/ MultiplyCoefficientAndRow(MaxOps)
    \/ AddMultipleTimesRowToRow(MaxOps)
    \/ SwapRowBelow(MaxOps)
    \/ ClearCoefficientsBelow(MaxOps)
    \/ ScaleRow(MaxOps)
    \/ ClearCoefficientsAbove(MaxOps)
    \/ ComputeTriangularForm
    \/ ComputeRref
    \/ GaussianElimination

Spec == Init /\ [][Next]_vars

(***************************************************************************)
(* A client that applies a sequence of up to MaxSeqOps primitives to s and *)
(* then solves it, on the inputs of the smallest dimension whose constant  *)
(* terms are 1, on the systems of Test 12 and of the quiz, and on a system *)
(* with a coefficient that a multiplication by 2 takes across the          *)
(* rounding test of first_nonzero_index.                                   *)
(***************************************************************************)
\* The double nearest to n / (d1 * d2), for small n and d1 * d2 below 2^53:
\* the value of the Python expression n / (d1 * d2), and of the literals
\* 1e-11 (1 / (10^5 * 10^6)) and 3e-10 (3 / (10^5 * 10^5)).
Small(n, d1, d2) == FDiv(Float(n), FMul(Float(d1), Float(d2)))

\* Plane(Vector([a, b]), k)
Row2(a, b, k) == Plane(<<a, b>>, k)

\* x = 1 and 2^-31 y = 2^-31: 2^-31 (about 4.66e-10) rounds to zero at nine
\* places and twice 2^-31 (about 9.31e-10) does not.
ThresholdSystem ==
    <<Row2(One, Zero, One), Row2(Zero, Small(1, 65536, 32768), Small(1, 65536, 32768))>>

SeqInputs ==
    {planes \in GridSystems :
        /\ Len(planes[1].normal_vector) = MinDim
        /\ \A i \in 1..Len(planes) : planes[i].constant_term = One}
        \cup {Test12, Quiz1, ThresholdSystem}

InitSeq == \E planes \in SeqInputs : Constructed(planes)

NextSeq ==
    \/ SwapRows(MaxSeqOps)
    \/ MultiplyCoefficientAndRow(MaxSeqOps)
    \/ AddMultipleTimesRowToRow(MaxSeqOps)
    \/ GaussianElimination

SpecSeq == InitSeq /\ [][NextSeq]_vars

(***************************************************************************)
(* Construction and row replacement.  A client holds a list of planes,     *)
(* which may be of different dimensions, builds a LinearSystem from it     *)
(* (LinearSystem.__init__), replaces rows (LinearSystem.__setitem__) and   *)
(* applies the in-place primitives.                                        *)
(***************************************************************************)
MaxDimOps == 2

dimension(p) == Len(p.normal_vector)

\* LinearSystem.__init__ raises ALL_PLANES_MUST_BE_IN_SAME_DIM_MSG when an
\* assert p.dimension == d fails.
init_raises(planes) == \E i \in 1..Len(planes) : dimension(planes[i]) # dimension(planes[1])

\* Mutant of setitem: the row is stored without the dimension being asserted.
setitem_unchecked(h, self, i, x) == Frame([h EXCEPT ![self.planes][i + 1] = x], FALSE)

\* LinearSystem.__setitem__: self[i] = x; raised is the Exception of the
\* failed assert, before which nothing is stored.
setitem(h, self, i, x) ==
    IF dimension(x) # self.dimension THEN Frame(h, TRUE)
    ELSE Frame([h EXCEPT ![self.planes][i + 1] = x], FALSE)

\* The planes the client builds lists from: every dimension MinDim..MaxDim,
\* all coefficients the same value of 0..MaxVal, constant term 1.
DimPlanes == {Plane([k \in 1..d |-> c], One) : d \in MinDim..MaxDim, c \in Vals}

\* The planes the client assigns to rows: one of each dimension.
AssignedPlanes == {Plane([k \in 1..d |-> One], Zero) : d \in MinDim..MaxDim}

DimInputs == UNION {[1..n -> DimPlanes] : n \in 1..MaxRows}

\* The client holds the list `planes`; no system is built yet.
Unbuilt(planes) ==
        /\ heap = Heap0(planes)
        /\ s = NoSystem
        /\ t = NoSystem
        /\ result = NoValue
        /\ raised = FALSE
        /\ last = [op |-> "none", on |-> "none", args |-> <<>>]
        /\ orig = planes
        /\ preserving = TRUE
        /\ nops = 0
        /\ ncalls = 0

InitDim == \E planes \in DimInputs : Unbuilt(planes)

\* s = LinearSystem(planes)
Construct ==
    /\ last.op = "none"
    /\ raised' = init_raises(heap["planes"])
    /\ s' = IF init_raises(heap["planes"]) THEN NoSystem ELSE LinearSystem(heap, "planes")
    /\ last' = [op |-> "__init__", on |-> "s", args |-> <<>>]
    /\ UNCHANGED <<heap, t, result, orig, preserving, nops, ncalls>>

\* What self[i] = x leaves, r = [heap, raised].
Stored(r, on, i, x) ==
    /\ heap' = r.heap
    /\ raised' = r.raised
    /\ last' = [op |-> "__setitem__", on |-> on, args |-> <<i, x>>]
    /\ preserving' = (preserving /\ on # "s")
    /\ nops' = nops + 1
    /\ UNCHANGED <<s, t, result, orig, ncalls>>

SetItem(maxops) ==
    \E on \in Targets : \E i \in RowsOf(on) : \E x \in AssignedPlanes :
        /\ nops < maxops
        /\ Stored(setitem(heap, Target(on), i, x), on, i, x)

NextDim ==
    \/ Construct
    \/ s # NoSystem /\ SetItem(MaxDimOps)
    \/ s # NoSystem /\ SwapRows(MaxDimOps)
    \/ s # NoSystem /\ MultiplyCoefficientAndRow(MaxDimOps)
    \/ s # NoSystem /\ AddMultipleTimesRowToRow(MaxDimOps)
    \/ s # NoSystem /\ ComputeRref

SpecDim == InitDim /\ [][NextDim]_vars

(***************************************************************************)
(* Systems with a coefficient between the two tolerances of the code:      *)
(* Tiny = 1/2100000000 (about 4.76e-10) is not near zero for               *)
(* MyDecimal.is_near_zero (abs(x) < 1e-10) and is zero for round(x, 9).    *)
(* With them, systems with entries below both tolerances (2^-40, about     *)
(* 9.09e-13, and 1e-11), with a constant between them (3e-10), and one     *)
(* whose elimination leaves a rounding residue of magnitude above 1e-10.   *)
(***************************************************************************)
Tiny == Ratio(1, 2100000000)

TolVals == {Zero, One, Tiny}

TolPlanes == {Plane(v, c) : v \in [1..MinDim -> TolVals], c \in Vals}

\* The number of coefficients of a system that equal Tiny.
TinyCount(planes) ==
    Cardinality({<<i, c>> \in (1..Len(planes)) \X (1..MinDim) :
                     planes[i].normal_vector[c] = Tiny})

TolSystems == {planes \in [1..MaxRows -> TolPlanes] : TinyCount(planes) <= 1}

EdgeSystems ==
    {<<Row2(Small(1, 1048576, 1048576), Small(1, 1048576, 1), Zero), Row2(Zero, One, Zero)>>,
     <<Row2(Small(1, 100000, 1000000), One, Zero), Row2(Zero, One, Zero)>>,
     <<Row2(One, One, Zero), Row2(Small(1, 1048576, 1048576), One, Zero)>>,
     <<Row2(One, One, One), Row2(Zero, Zero, Small(3, 100000, 100000))>>,
     <<Row2(Float(7), One, Zero), Row2(Float(1000000), One, Zero)>>}

InitTol == \E planes \in TolSystems \cup EdgeSystems : Constructed(planes)

NextTol ==
    \/ ComputeTriangularForm
    \/ ComputeRref
    \/ GaussianElimination

SpecTol == InitTol /\ [][NextTol]_vars

(***************************************************************************)
(* Construction of a row: Plane(Vector(coordinates), constant_term).       *)
(* last.args holds the arguments of the call; after the call the caller's  *)
(* list holds the plane that was built, and result.kind the exception that *)
(* was raised.                                                             *)
(***************************************************************************)
NoVector == [error |-> "none", coordinates |-> <<>>, dimension |-> 0]

\* Vector.__init__ that accepts every nonempty sequence.
Vector_nonempty(coordinates) ==
    IF Len(coordinates) = 0 THEN [NoVector EXCEPT !.error = "ValueError"]
    ELSE [error |-> "none", coordinates |-> coordinates, dimension |-> Len(coordinates)]

Vector(coordinates) ==
    IF Len(coordinates) = 0 THEN [NoVector EXCEPT !.error = "ValueError"]
    ELSE IF Len(coordinates) < MinDim THEN [NoVector EXCEPT !.error = "IndexError"]
    ELSE [error |-> "none", coordinates |-> coordinates, dimension |-> Len(coordinates)]

CoordinateLists == UNION {[1..n -> Scalars] : n \in 0..MaxDim}

InitPlane ==
    \E coordinates \in CoordinateLists : \E constant_term \in Vals :
        /\ heap = Heap0(<<>>)
        /\ s = NoSystem
        /\ t = NoSystem
        /\ result = NoValue
        /\ raised = FALSE
        /\ last = [op |-> "none", on |-> "none", args |-> <<coordinates, constant_term>>]
        /\ orig = <<>>
        /\ preserving = TRUE
        /\ nops = 0
        /\ ncalls = 0

Built(v, constant_term) ==
    /\ raised' = (v.error # "none")
    /\ result' = [NoValue EXCEPT !.kind = IF v.error # "none" THEN v.error ELSE "None"]
    /\ heap' = IF v.error # "none" THEN heap
               ELSE [heap EXCEPT !["planes"] = <<Plane(v.coordinates, constant_term)>>]
    /\ last' = [last EXCEPT !.op = "Plane"]
    /\ UNCHANGED <<s, t, orig, preserving, nops, ncalls>>

NewPlane == last.op = "none" /\ Built(Vector(last.args[1]), last.args[2])

NextPlane == NewPlane

SpecPlane == InitPlane /\ [][NextPlane]_vars

(***************************************************************************)
(* Vocabulary of the properties.  A number counts as zero when it is near  *)
(* zero, of magnitude below the tolerance 1e-10: the test of               *)
(* MyDecimal.is_near_zero, which the pivot search of                       *)
(* compute_triangular_form and swap_row_below applies.  The pivot of a row *)
(* is its first coefficient that is not near zero.  Where a property       *)
(* speaks of exact arithmetic it is stated of the exact runs, those in     *)
(* which no quotient and no row operation is rounded.                      *)
(***************************************************************************)
Called(op) == last.op = op /\ ~raised

RowsOfS == heap[s.planes]

RowsOfT == heap[t.planes]

Columns(rows) == 1..Len(rows[1].normal_vector)

\* The 1-based pivot column of a plane: the column of its first coefficient
\* that is not near zero; 0 if there is none.
PivotColumn(p) ==
    IF \A c \in 1..Len(p.normal_vector) : is_near_zero(p.normal_vector[c]) THEN 0
    ELSE CHOOSE c \in 1..Len(p.normal_vector) :
             /\ ~is_near_zero(p.normal_vector[c])
             /\ \A b \in 1..(c - 1) : is_near_zero(p.normal_vector[b])

PivotColumns(rows) == {PivotColumn(rows[i]) : i \in 1..Len(rows)} \ {0}

\* Row-echelon form: the pivot columns strictly increase with the row index
\* and the rows without a pivot come last.
IsEchelon(rows) ==
    \A i, j \in 1..Len(rows) :
        (i < j /\ PivotColumn(rows[j]) # 0) =>
            (PivotColumn(rows[i]) # 0 /\ PivotColumn(rows[i]) < PivotColumn(rows[j]))

\* Some row has no pivot and a constant that is not near zero.
Inconsistent(rows) ==
    \E i \in 1..Len(rows) :
        PivotColumn(rows[i]) = 0 /\ ~is_near_zero(rows[i].constant_term)

RECURSIVE Dot(_, _)
Dot(v, x) ==
    IF v = <<>> THEN Zero ELSE FAdd(FMul(Head(v), Head(x)), Dot(Tail(v), Tail(x)))

Satisfies(x, rows) ==
    \A i \in 1..Len(rows) : Dot(rows[i].normal_vector, x) = rows[i].constant_term

\* The reduced form of s, computed on a scratch list.
ReducedRowsOfS == LET r == compute_rref(heap, s, "ge") IN r.heap[r.system.planes]

HasPivot(p) == PivotColumn(p) # 0

PivotRows(rows) == SelectSeq(rows, HasPivot)

(***************************************************************************)
(* Exact runs.  A sum, product or quotient of two doubles is exact when it *)
(* is a double itself, so that the operation returns it unrounded.  A row  *)
(* operation is exact when each product and each sum it forms is; a run of *)
(* compute_triangular_form or compute_rref is exact when every quotient    *)
(* (alpha, 1/pivot) and every row operation of its loops is.               *)
(***************************************************************************)
ExactSum(x, y) ==
    \/ IsZero(x)
    \/ IsZero(y)
    \/ FAdd(FAdd(x, y), FNeg(x)) = y /\ FAdd(FAdd(x, y), FNeg(y)) = x

ExactProduct(x, y) == IsZero(x) \/ IsZero(y) \/ BitLen(BMul(x.m, y.m)) <= Precision

ExactQuotient(x, y) == ExactProduct(FDiv(x, y), y) /\ FMul(FDiv(x, y), y) = x

ExactScaling(h, self, coefficient, row) ==
    LET p == getitem(h, self, row)
    IN  /\ ExactProduct(coefficient, p.constant_term)
        /\ \A i \in 1..Len(p.normal_vector) : ExactProduct(coefficient, p.normal_vector[i])

ExactRowSum(h, self, coefficient, row_to_add, row_to_be_added_to) ==
    LET p == _multiply(h, self, coefficient, row_to_add)
        q == getitem(h, self, row_to_be_added_to)
    IN  /\ ExactScaling(h, self, coefficient, row_to_add)
        /\ ExactSum(q.constant_term, p.constant_term)
        /\ \A i \in 1..Len(q.normal_vector) : ExactSum(q.normal_vector[i], p.normal_vector[i])

\* The loop of clear_coefficients_below from row k on.
RECURSIVE ExactBelowFrom(_, _, _, _, _, _)
ExactBelowFrom(h, self, row, col, beta, k) ==
    IF k >= len(h, self) \/ beta = Zero THEN TRUE
    ELSE LET gamma == coordinate(h, self, k, col)
             alpha == FDiv(FNeg(gamma), beta)
         IN  /\ ExactQuotient(FNeg(gamma), beta)
             /\ ExactRowSum(h, self, alpha, row, k)
             /\ ExactBelowFrom(add_multiple_times_row_to_row(h, self, alpha, row, k),
                               self, row, col, beta, k + 1)

ExactBelow(h, self, row, col) ==
    ExactBelowFrom(h, self, row, col, coordinate(h, self, row, col), row + 1)

\* The loops of compute_triangular_form from (row, col) on.
RECURSIVE ExactTriangularLoop(_, _, _, _)
ExactTriangularLoop(w, system, row, col) ==
    IF w.raised \/ row >= len(w.heap, system) THEN TRUE
    ELSE IF col >= system.dimension THEN ExactTriangularLoop(w, system, row + 1, 0)
    ELSE IF is_near_zero(coordinate(w.heap, system, row, col))
         THEN LET sw == swap_row_below(w.heap, system, row, col)
              IN  IF ~sw.found
                  THEN ExactTriangularLoop(w, system, row, col + 1)
                  ELSE /\ ExactBelow(sw.heap, system, row, col)
                       /\ ExactTriangularLoop(
                              clear_coefficients_below(sw.heap, system, row, col),
                              system, row + 1, 0)
    ELSE /\ ExactBelow(w.heap, system, row, col)
         /\ ExactTriangularLoop(clear_coefficients_below(w.heap, system, row, col),
                                system, row + 1, 0)

\* compute_triangular_form of the system self runs exactly.
ExactTriangular(h, self) ==
    LET c == deepcopy(h, self, "ge")
    IN  ExactTriangularLoop(Frame(c.heap, FALSE), c.system, 0, 0)

\* The loop of clear_coefficients_above from row k up.
RECURSIVE ExactAboveFrom(_, _, _, _, _)
ExactAboveFrom(h, self, row, col, k) ==
    IF k < 0 THEN TRUE
    ELSE LET scalar == FNeg(coordinate(h, self, k, col))
         IN  /\ ExactRowSum(h, self, scalar, row, k)
             /\ ExactAboveFrom(add_multiple_times_row_to_row(h, self, scalar, row, k),
                               self, row, col, k - 1)

\* The loop of compute_rref from row i up.
RECURSIVE ExactRrefLoop(_, _, _, _)
ExactRrefLoop(w, system, pivot_indices, i) ==
    IF w.raised \/ i < 0 THEN TRUE
    ELSE IF pivot_indices[i + 1] < 0 THEN ExactRrefLoop(w, system, pivot_indices, i - 1)
    ELSE LET x == coordinate(w.heap, system, i, pivot_indices[i + 1])
             sc == scale_row(w.heap, system, i, pivot_indices[i + 1])
         IN  \/ sc.raised
             \/ /\ ExactQuotient(One, x)
                /\ ExactScaling(w.heap, system, FDiv(One, x), i)
                /\ ExactAboveFrom(sc.heap, system, i, pivot_indices[i + 1], i - 1)
                /\ ExactRrefLoop(
                       Frame(clear_coefficients_above(sc.heap, system, i,
                                                      pivot_indices[i + 1]), FALSE),
                       system, pivot_indices, i - 1)

\* compute_rref of the system self runs exactly.
ExactRref(h, self) ==
    LET tf == compute_triangular_form(h, self, "ge")
    IN  /\ ExactTriangular(h, self)
        /\ \/ tf.raised
           \/ ExactRrefLoop(Frame(tf.heap, FALSE), tf.system,
                            indices_of_first_nonzero_terms_in_each_row(tf.heap, tf.system),
                            len(tf.heap, tf.system) - 1)

\* The reductions of the system s, as it is now, run exactly.
ExactTriangularOfS == ExactTriangular(heap, s)

ExactRrefOfS == ExactRref(heap, s)

(***************************************************************************)
(* C1. compute_triangular_form, compute_rref and gaussian_elimination      *)
(* leave the receiver as it was: same list, same rows, same order, same    *)
(* row count; and an in-place primitive applied to the returned system     *)
(* leaves the rows of the receiver unchanged.                              *)
(***************************************************************************)
C1_ReceiverNotMutated ==
    [][/\ (ncalls' = ncalls + 1) => (s' = s /\ heap'[s.planes] = heap[s.planes])
       /\ (nops' = nops + 1 /\ last'.on = "t") => heap'[s.planes] = heap[s.planes]]_vars

C1_Witness ==
    /\ last.on = "t"
    /\ last.op = "add_multiple_times_row_to_row"
    /\ RowsOfT # RowsOfS
    /\ RowsOfS = orig
    /\ \E i \in 1..Len(orig) : PivotColumn(orig[i]) = 0 /\ orig[i].constant_term = Zero

(***************************************************************************)
(* C2. In exact arithmetic (when compute_triangular_form runs exactly), in  *)
(* the triangular form the pivot column of each row that has one is        *)
(* strictly greater than the pivot column of every earlier row, and rows   *)
(* without a pivot come after all rows that have one.                      *)
(***************************************************************************)
C2_TriangularPivotsIncrease ==
    (Called("compute_triangular_form") /\ ExactTriangularOfS) => IsEchelon(RowsOfT)

(***************************************************************************)
(* C3. In exact arithmetic (when compute_rref runs exactly), in the reduced *)
(* form every pivot column holds exactly one entry that is not zero over   *)
(* all rows: the pivot of its row, which is exactly 1.                     *)
(***************************************************************************)
C3_RrefPivotColumns ==
    (Called("compute_rref") /\ ExactRrefOfS) =>
        \A i \in 1..Len(RowsOfT) :
            LET c == PivotColumn(RowsOfT[i])
            IN  c # 0 =>
                    /\ RowsOfT[i].normal_vector[c] = One
                    /\ \A k \in 1..Len(RowsOfT) :
                           k # i => is_near_zero(RowsOfT[k].normal_vector[c])

(***************************************************************************)
(* Plane.__eq__: same dimension, same constant term, same coefficients.    *)
(***************************************************************************)
Plane_eq(self, p) ==
    /\ Len(self.normal_vector) = Len(p.normal_vector)
    /\ self.constant_term = p.constant_term
    /\ \A i \in 1..Len(self.normal_vector) : self.normal_vector[i] = p.normal_vector[i]

SameRows(a, b) == Len(a) = Len(b) /\ \A i \in 1..Len(a) : Plane_eq(a[i], b[i])

\* compute_rref applied to the system t, on a scratch list: [heap, system,
\* raised].
RrefOfT == compute_rref(heap, t, "ge")

(***************************************************************************)
(* C4. Full reduction is idempotent: compute_rref of the system returned   *)
(* by compute_rref returns a system whose rows are equal to it, row by     *)
(* row.                                                                    *)
(***************************************************************************)
C4_RrefIdempotent ==
    Called("compute_rref") =>
        /\ ~RrefOfT.raised
        /\ SameRows(RrefOfT.heap[RrefOfT.system.planes], RowsOfT)

(***************************************************************************)
(* C5. Row operations preserve the solution set: after swap_rows,          *)
(* multiply_coefficient_and_row with k # 0 and                             *)
(* add_multiple_times_row_to_row with src # dst, gaussian_elimination      *)
(* returns what it returns for the system as constructed.                  *)
(***************************************************************************)
ResultForOrig ==
    gaussian_elimination(Heap0(orig), LinearSystem(Heap0(orig), "planes"),
                         "ge", "new_planes").value

C5_RowOperationsPreserveResult ==
    (Called("gaussian_elimination") /\ preserving) => result = ResultForOrig

(***************************************************************************)
(* C6. Scenario C as stated: for the system Quiz1, gaussian_elimination    *)
(* yields a parametric solution with exactly one direction vector.         *)
(***************************************************************************)
SolvedAsConstructed(planes) ==
    Called("gaussian_elimination") /\ orig = planes /\ RowsOfS = planes

C6_ScenarioC_Parametric ==
    SolvedAsConstructed(Quiz1) =>
        (result.kind = "parameters" /\ Len(result.direction_vectors) = 1)

(***************************************************************************)
(* C6 as amended: for Quiz1, whose second row has -1/2 times the           *)
(* coefficients of the first but +1/2 times its constant,                  *)
(* gaussian_elimination yields the no-solution result.                     *)
(***************************************************************************)
C6_ScenarioC_NoSolutions == SolvedAsConstructed(Quiz1) => result = NO_SOLUTIONS_MSG

C6_Witness ==
    /\ SolvedAsConstructed(Quiz1)
    /\ \A c \in Columns(Quiz1) :
           Quiz1[2].normal_vector[c] = FMul(Ratio(-1, 2), Quiz1[1].normal_vector[c])
    /\ Quiz1[2].constant_term = FMul(Ratio(1, 2), Quiz1[1].constant_term)

(***************************************************************************)
(* C7. Scenario D: whenever the system holds a row with all coefficients   *)
(* zero and a non-zero constant, gaussian_elimination returns the          *)
(* no-solution result, wherever the row sits and whatever the other rows   *)
(* are, also when they leave free variables.                               *)
(***************************************************************************)
C7_ScenarioD_NoSolutions ==
    (Called("gaussian_elimination") /\ Inconsistent(RowsOfS)) => result = NO_SOLUTIONS_MSG

(***************************************************************************)
(* C8. In exact arithmetic (when compute_rref runs exactly), when the       *)
(* reduced form is consistent and every column is a pivot column,          *)
(* gaussian_elimination returns a tuple of exactly N values: the constants *)
(* of the pivot rows of the reduced form in row order; and that point      *)
(* satisfies every equation of the system.  For Test12 (Scenario B) the    *)
(* reduced form is the identity with constants 23/9, 7/9, 2/9 (the doubles *)
(* nearest to them).                                                       *)
(***************************************************************************)
UniqueCase(rows) ==
    /\ ~Inconsistent(rows)
    /\ PivotColumns(rows) = Columns(rows)

ScenarioB_Rref ==
    <<Plane(<<One, Zero, Zero>>, Ratio(23, 9)),
      Plane(<<Zero, One, Zero>>, Ratio(7, 9)),
      Plane(<<Zero, Zero, One>>, Ratio(2, 9))>>

\* The result is the point read from the pivot rows, and it solves s.
PointFrom(pivot_rows) ==
    /\ result.kind = "tuple"
    /\ Len(result.solutions) = s.dimension
    /\ result.solutions = [i \in 1..Len(pivot_rows) |-> pivot_rows[i].constant_term]
    /\ Satisfies(result.solutions, RowsOfS)

PointWhenUnique(rows) == UniqueCase(rows) => PointFrom(PivotRows(rows))

C8_UniqueSolution ==
    /\ (Called("gaussian_elimination") /\ ExactRrefOfS) => PointWhenUnique(ReducedRowsOfS)
    /\ SolvedAsConstructed(Test12) =>
           /\ ReducedRowsOfS = ScenarioB_Rref
           /\ result.solutions = <<Ratio(23, 9), Ratio(7, 9), Ratio(2, 9)>>

(***************************************************************************)
(* C9. When the reduced form is consistent and some column is not a pivot  *)
(* column, the result is parametric with exactly one direction vector per  *)
(* free column; the basepoint holds each pivot row's constant at its pivot *)
(* column and 0 elsewhere; the direction vector of free column f holds 1   *)
(* at f, minus the pivot row's coefficient at f at that row's pivot        *)
(* column, and 0 elsewhere.                                                *)
(***************************************************************************)
FreeColumns(rows) == Columns(rows) \ PivotColumns(rows)

RowOfPivot(rows, c) == rows[CHOOSE i \in 1..Len(rows) : PivotColumn(rows[i]) = c]

ExpectedBasepoint(rows) ==
    [c \in Columns(rows) |->
        IF c \in PivotColumns(rows) THEN RowOfPivot(rows, c).constant_term ELSE Zero]

ExpectedDirection(rows, f) ==
    [c \in Columns(rows) |->
        IF c = f THEN One
        ELSE IF c \in PivotColumns(rows) THEN FNeg(RowOfPivot(rows, c).normal_vector[f])
        ELSE Zero]

\* The result is the parametric solution read from the reduced form rows.
ParametricFrom(rows) ==
    /\ result.kind = "parameters"
    /\ Len(result.direction_vectors) = Cardinality(FreeColumns(rows))
    /\ {result.direction_vectors[j] : j \in 1..Len(result.direction_vectors)} =
           {ExpectedDirection(rows, f) : f \in FreeColumns(rows)}
    /\ result.basepoint = ExpectedBasepoint(rows)

ParametricCase(rows) == ~Inconsistent(rows) /\ FreeColumns(rows) # {}

ParametricWhenFree(rows) == ParametricCase(rows) => ParametricFrom(rows)

C9_ParametricSolution ==
    Called("gaussian_elimination") => ParametricWhenFree(ReducedRowsOfS)

(***************************************************************************)
(* C10. compute_triangular_form leaves the pivot rows unscaled and clears  *)
(* the pivot column in every row below: the first row of the result is a   *)
(* row of the system, the entries below each pivot are zero (near zero, at *)
(* the least), and for Test11 (Scenario A) the result is [1,1,1|1],        *)
(* [0,1,0|2], [0,0,-2|2], [0,0,0|0], in that order.                        *)
(***************************************************************************)
ScenarioA_Triangular ==
    <<IntPlane(1, 1, 1, 1), IntPlane(0, 1, 0, 2), IntPlane(0, 0, -2, 2), IntPlane(0, 0, 0, 0)>>

C10_TriangularScenarioA ==
    Called("compute_triangular_form") =>
        /\ RowsOfT[1] \in {RowsOfS[i] : i \in 1..Len(RowsOfS)}
        /\ \A i, k \in 1..Len(RowsOfT) :
               (i < k /\ PivotColumn(RowsOfT[i]) # 0) =>
                   is_near_zero(RowsOfT[k].normal_vector[PivotColumn(RowsOfT[i])])
        /\ (orig = Test11 /\ RowsOfS = Test11) => RowsOfT = ScenarioA_Triangular

(***************************************************************************)
(* C11. A dimension mismatch is an error and changes nothing:              *)
(* LinearSystem(planes) raises exactly when the planes are not all of one  *)
(* dimension, and then no system exists; system[i] = x with a plane x of   *)
(* another dimension raises and leaves every row of every list as it was,  *)
(* and with a plane of the system's dimension it replaces row i only; and  *)
(* after every step all rows of s and of t have the system's dimension.    *)
(***************************************************************************)
AllRowsShareDimension(system) ==
    system # NoSystem =>
        \A i \in 1..Len(heap[system.planes]) :
            dimension(heap[system.planes][i]) = system.dimension

ConstructionChecked ==
    /\ raised' = (\E i, j \in 1..Len(orig) : dimension(orig[i]) # dimension(orig[j]))
    /\ raised' => s' = NoSystem
    /\ ~raised' => (s' # NoSystem /\ heap'[s'.planes] = orig)

ReplacementChecked ==
    LET i == last'.args[1] + 1
        x == last'.args[2]
        target == IF last'.on = "s" THEN s ELSE t
    IN  /\ raised' = (dimension(x) # target.dimension)
        /\ raised' => heap' = heap
        /\ ~raised' =>
               /\ heap'[target.planes][i] = x
               /\ Len(heap'[target.planes]) = Len(heap[target.planes])
               /\ \A k \in 1..Len(heap[target.planes]) :
                      k # i => heap'[target.planes][k] = heap[target.planes][k]

C11_DimensionMismatch ==
    [][/\ (last.op = "none" /\ last'.op = "__init__") => ConstructionChecked
       /\ (nops' = nops + 1 /\ last'.op = "__setitem__") => ReplacementChecked
       /\ AllRowsShareDimension(s)' /\ AllRowsShareDimension(t)']_vars

C11_Witness ==
    /\ last.op = "__setitem__"
    /\ raised
    /\ nops = MaxDimOps
    /\ dimension(last.args[2]) # s.dimension
    /\ Len(RowsOfS) > 1
    /\ RowsOfS # orig

(***************************************************************************)
(* C12. One near-zero test, magnitude against 1e-10, decides everywhere    *)
(* whether a coefficient is zero: for every row of every list,             *)
(* first_nonzero_index is the index of the first coefficient that          *)
(* is_near_zero (the test of compute_triangular_form and swap_row_below)   *)
(* rejects, and round(x, 9) == 0 (the test of first_nonzero_index, of the  *)
(* dropping of 0 = 0 rows and of the no-solution check) agrees with        *)
(* is_near_zero on every coefficient.                                      *)
(***************************************************************************)
\* The 0-based index of the first coefficient that is not near zero for
\* is_near_zero; -1 if there is none.
FirstBeyondEps(v) ==
    IF \A c \in 1..Len(v) : is_near_zero(v[c]) THEN -1
    ELSE (CHOOSE c \in 1..Len(v) :
              ~is_near_zero(v[c]) /\ \A b \in 1..(c - 1) : is_near_zero(v[b])) - 1

ListsInUse == {r \in Refs : heap[r] # <<>>}

C12_OneNearZeroTest ==
    \A r \in ListsInUse : \A i \in 1..Len(heap[r]) :
        /\ first_nonzero_index(heap[r][i].normal_vector) =
               FirstBeyondEps(heap[r][i].normal_vector)
        /\ \A c \in 1..Len(heap[r][i].normal_vector) :
               round9_is_zero(heap[r][i].normal_vector[c]) =
                   is_near_zero(heap[r][i].normal_vector[c])

(***************************************************************************)
(* C14. compute_triangular_form, compute_rref and gaussian_elimination     *)
(* complete without raising on every valid system, and                     *)
(* gaussian_elimination returns one of the three outcomes as a value.      *)
(***************************************************************************)
EliminationOps == {"compute_triangular_form", "compute_rref", "gaussian_elimination"}

C14_NoRaise ==
    last.op \in EliminationOps =>
        /\ ~raised
        /\ last.op = "gaussian_elimination" =>
               result.kind \in {"No solutions", "parameters", "tuple"}

(***************************************************************************)
(* C13. A row is constructed from a sequence of N coefficients exactly     *)
(* when N >= 2, and its dimension is then N; construction fails with       *)
(* ValueError when no coefficient is supplied and with IndexError when     *)
(* exactly one is supplied.                                                *)
(***************************************************************************)
Coefficients == last.args[1]

PlaneBuilt == last.op = "Plane" /\ ~raised

C13_AtLeastTwoCoefficients ==
    last.op = "Plane" =>
        /\ raised <=> Len(Coefficients) < 2
        /\ Len(Coefficients) = 0 => result.kind = "ValueError"
        /\ Len(Coefficients) = 1 => result.kind = "IndexError"
        /\ ~raised => /\ Len(heap["planes"]) = 1
                      /\ dimension(heap["planes"][1]) = Len(Coefficients)
                      /\ heap["planes"][1].normal_vector = Coefficients

\* A row of the largest dimension has been built.
C13_Witness ==
    /\ PlaneBuilt
    /\ Len(Coefficients) = MaxDim
    /\ dimension(heap["planes"][1]) = MaxDim

\* C13 as stated: a row can be constructed for every N >= 1, its dimension
\* is the number of coefficients, and construction fails only for N = 0.
C13_AnyDimension ==
    last.op = "Plane" =>
        /\ raised <=> Len(Coefficients) = 0
        /\ ~raised => /\ Len(heap["planes"]) = 1
                      /\ dimension(heap["planes"][1]) = Len(Coefficients)

(***************************************************************************)
(* C15. add_multiple_times_row_to_row(k, src, dst) with src # dst replaces *)
(* row dst by dst + k*src, coefficient by coefficient and in the constant, *)
(* and leaves row src, every other row, the row order and the row count    *)
(* unchanged; with k = 0 the whole system is unchanged.                    *)
(***************************************************************************)
\* The step is a call of the primitive op; the rows of its receiver before
\* and after the call.
PrimitiveStep(op) == nops' = nops + 1 /\ last'.op = op

RowsBefore == heap[Target(last'.on).planes]

RowsAfter == heap'[Target(last'.on).planes]

OtherRowsKept(row) ==
    /\ Len(RowsAfter) = Len(RowsBefore)
    /\ \A i \in 1..Len(RowsBefore) : i # row => RowsAfter[i] = RowsBefore[i]

\* k*src + dst, term by term.
ScaledSum(k, src, dst) ==
    Plane([c \in 1..Len(dst.normal_vector) |->
               FAdd(dst.normal_vector[c], FMul(k, src.normal_vector[c]))],
          FAdd(dst.constant_term, FMul(k, src.constant_term)))

AddedScaledRow(k, src, dst) ==
    /\ OtherRowsKept(dst)
    /\ Plane_eq(RowsAfter[dst], ScaledSum(k, RowsBefore[src], RowsBefore[dst]))
    /\ k = Zero => heap' = heap

C15_AddScaledRow ==
    [][(PrimitiveStep("add_multiple_times_row_to_row") /\ last'.args[2] # last'.args[3])
           => AddedScaledRow(last'.args[1], last'.args[2] + 1, last'.args[3] + 1)]_vars

\* Twice row src has been added to a different row dst of the system as
\* constructed, and changed it.
C15_Witness ==
    /\ last.op = "add_multiple_times_row_to_row"
    /\ last.on = "s"
    /\ nops = 1
    /\ last.args[1] = Float(2)
    /\ last.args[2] # last.args[3]
    /\ RowsOfS[last.args[3] + 1] # orig[last.args[3] + 1]
    /\ RowsOfS[last.args[3] + 1].constant_term # orig[last.args[3] + 1].constant_term
    /\ RowsOfS[last.args[2] + 1] = orig[last.args[2] + 1]
    /\ Len(orig) > 1

(***************************************************************************)
(* C16. multiply_coefficient_and_row(k, i) replaces row i in place by      *)
(* (k*coefficients, k*constant) for every scalar k and leaves every other  *)
(* row unchanged; k = 1 leaves the system unchanged, and k = 0 is accepted *)
(* and turns row i into the all-zero row 0 = 0.                            *)
(***************************************************************************)
Scaled(k, row) ==
    Plane([c \in 1..Len(row.normal_vector) |-> FMul(k, row.normal_vector[c])],
          FMul(k, row.constant_term))

IsZeroRow(row) ==
    /\ row.constant_term = Zero
    /\ \A c \in 1..Len(row.normal_vector) : row.normal_vector[c] = Zero

ScaledRow(k, row) ==
    /\ OtherRowsKept(row)
    /\ Plane_eq(RowsAfter[row], Scaled(k, RowsBefore[row]))
    /\ \A r \in Refs \ {Target(last'.on).planes} : heap'[r] = heap[r]
    /\ ~raised'
    /\ k = One => heap' = heap
    /\ k = Zero => IsZeroRow(RowsAfter[row])

C16_ScaleRow ==
    [][PrimitiveStep("multiply_coefficient_and_row")
           => ScaledRow(last'.args[1], last'.args[2] + 1)]_vars

\* The last row of the system as constructed, which is not the first and was
\* not all zero, has been multiplied by 0 and has become the row 0 = 0.
C16_Witness ==
    /\ last.op = "multiply_coefficient_and_row"
    /\ last.on = "s"
    /\ nops = 1
    /\ last.args[1] = Zero
    /\ last.args[2] = Len(orig) - 1
    /\ Len(orig) > 1
    /\ ~IsZeroRow(orig[Len(orig)])
    /\ orig[Len(orig)].constant_term # Zero
    /\ IsZeroRow(RowsOfS[Len(orig)])

(***************************************************************************)
(* C17. swap_rows(i, j) exchanges the rows at positions i and j without    *)
(* changing any coefficient or constant and leaves every other position    *)
(* unchanged; swap_rows(j, i) applied after it restores the original       *)
(* order.                                                                  *)
(***************************************************************************)
Exchanged(i, j) ==
    /\ Len(RowsAfter) = Len(RowsBefore)
    /\ RowsAfter[i] = RowsBefore[j]
    /\ RowsAfter[j] = RowsBefore[i]
    /\ \A k \in 1..Len(RowsBefore) : k \notin {i, j} => RowsAfter[k] = RowsBefore[k]
    /\ \A r \in Refs \ {Target(last'.on).planes} : heap'[r] = heap[r]
    /\ ~raised'

SwappedBack(i, j) == swap_rows(heap', Target(last'.on), j, i) = heap

C17_SwapRows ==
    [][PrimitiveStep("swap_rows")
           => /\ Exchanged(last'.args[1] + 1, last'.args[2] + 1)
              /\ SwappedBack(last'.args[1], last'.args[2])]_vars

\* The first and the last row of a three-row system as constructed, which
\* differ, have been exchanged, and the middle row is in its place.
C17_Witness ==
    /\ last.op = "swap_rows"
    /\ last.on = "s"
    /\ nops = 1
    /\ Len(orig) = 3
    /\ last.args = <<0, 2>>
    /\ orig[1] # orig[3]
    /\ RowsOfS = <<orig[3], orig[2], orig[1]>>

(***************************************************************************)
(* C18. Pivot selection of compute_triangular_form.  When the entry at     *)
(* (row, col) is zero, swap_row_below exchanges the row with the           *)
(* lowest-indexed row below it whose entry in col is non-zero, whatever    *)
(* the magnitudes, and changes nothing when there is none; the first row   *)
(* of the triangular form is the lowest-indexed row of S that is non-zero  *)
(* in the first column in which any row is non-zero (S's own first row     *)
(* when its entry there is non-zero, and a later column is tried for the   *)
(* same row when a column is zero in every row); and the triangular form   *)
(* of Test12 is [1,-1,1|2], [0,1,1|1], [0,0,-9|-2].                        *)
(***************************************************************************)
\* The 1-based rows below row whose entry in column col is non-zero.
UsableBelow(rows, row, col) ==
    {k \in (row + 1)..Len(rows) : rows[k].normal_vector[col] # Zero}

Lowest(S) == CHOOSE k \in S : \A j \in S : k <= j

SwapsLowestBelow(row, col) ==
    LET sw == swap_row_below(heap, s, row - 1, col - 1)
        usable == UsableBelow(RowsOfS, row, col)
    IN  IF usable = {}
        THEN ~sw.found /\ sw.heap = heap
        ELSE /\ sw.found
             /\ sw.heap = swap_rows(heap, s, row - 1, Lowest(usable) - 1)
             /\ sw.heap[s.planes][row] = RowsOfS[Lowest(usable)]
             /\ sw.heap[s.planes][Lowest(usable)] = RowsOfS[row]

\* The columns in which some row of rows is non-zero.
UsedColumns(rows) ==
    {c \in Columns(rows) : \E i \in 1..Len(rows) : rows[i].normal_vector[c] # Zero}

FirstPivotRow(rows) == Lowest(UsableBelow(rows, 0, Lowest(UsedColumns(rows))))

Test12Triangular == <<IntPlane(1, -1, 1, 2), IntPlane(0, 1, 1, 1), IntPlane(0, 0, -9, -2)>>

C18_FirstUsableRowBelow ==
    /\ \A row \in 1..Len(RowsOfS) : \A col \in Columns(RowsOfS) :
           RowsOfS[row].normal_vector[col] = Zero => SwapsLowestBelow(row, col)
    /\ Called("compute_triangular_form") =>
           /\ UsedColumns(RowsOfS) = {} => SameRows(RowsOfT, RowsOfS)
           /\ UsedColumns(RowsOfS) # {} => Plane_eq(RowsOfT[1], RowsOfS[FirstPivotRow(RowsOfS)])
           /\ RowsOfS = Test12 => SameRows(RowsOfT, Test12Triangular)

\* The triangular form of a three-row system whose first column is 0, 1, 2:
\* the second row, not the third with the larger entry, has become the first.
C18_Witness ==
    /\ Called("compute_triangular_form")
    /\ Len(RowsOfS) = 3
    /\ RowsOfS[1].normal_vector[1] = Zero
    /\ RowsOfS[2].normal_vector[1] = One
    /\ RowsOfS[3].normal_vector[1] = Float(2)
    /\ FirstPivotRow(RowsOfS) = 2
    /\ RowsOfT[1] = RowsOfS[2]
    /\ RowsOfT[1] # RowsOfS[3]

(***************************************************************************)
(* C19. compute_triangular_form is the identity on systems in row-echelon  *)
(* form: when the pivot columns of S strictly increase with the row index  *)
(* and the rows without a pivot come last, the result has the rows of S in *)
(* the same order; and the triangular form of a triangular form T of any S *)
(* is T.                                                                   *)
(***************************************************************************)
\* compute_triangular_form applied to the system t, on a scratch list.
TriangularOfT == LET r == compute_triangular_form(heap, t, "ge") IN r.heap[r.system.planes]

C19_TriangularFixesEchelon ==
    Called("compute_triangular_form") =>
        /\ IsEchelon(RowsOfS) => SameRows(RowsOfT, RowsOfS)
        /\ SameRows(TriangularOfT, RowsOfT)

(***************************************************************************)
(* C20. The LinearSystem exclusively owns its row sequence: whatever       *)
(* primitives are applied to a system, the sequence the caller passed to   *)
(* the constructor is as it was passed, and so are the rows of another     *)
(* LinearSystem built from that same sequence.                             *)
(***************************************************************************)
\* The sequence the caller passed to the constructor, as it is now.
CallerSequence == heap["planes"]

\* Another system, built from the caller's sequence.
OtherSystem == LinearSystem(heap, "planes")

C20_ExclusiveOwnership ==
    /\ CallerSequence = orig
    /\ len(heap, OtherSystem) = Len(orig)
    /\ \A i \in 0..(Len(orig) - 1) : getitem(heap, OtherSystem, i) = orig[i + 1]

====
